---- MODULE Spec2Model ----
(***************************************************************************)
(* Job orchestration and artifact collection of the x2a backend plugin.    *)
(*                                                                         *)
(*  - the callback wrapper script that JobsService.wrapCommandWithCallback *)
(*    produces, executed line by line by /bin/sh -c inside a job;          *)
(*  - the artifact ledger of ArtifactCollectorService, a JSON Lines file   *)
(*    written with fs.promises.appendFile and read with readFile;          *)
(*  - job creation: POST /jobs of the router, JobsService.createJob with   *)
(*    generateJobName and buildCommand, and the cluster's answer.          *)
(*                                                                         *)
(* Strings that the code only tests for emptiness or equality are TLA+     *)
(* strings.  Instants rendered as text (toISOString, date -u) are          *)
(* sequences: <<>> is the empty string, <<t>> the rendering of instant t.  *)
(* Strings that the code takes apart (phase, name) are sequences of        *)
(* characters.                                                             *)
(***************************************************************************)
EXTENDS Integers, Sequences, FiniteSets, TLC

\* ------------------------------------------------------------------ bounds

\* script executions that may be in progress at once
MaxRuns == 1
\* last instant of the clock
MaxTime == 1
\* collectArtifacts calls that may be awaiting appendFile at once
MaxCalls == 2
\* collectArtifacts calls accepted between two clears
MaxAppends == 2
\* writes cut short by a crash that a file may hold
MaxCrashes == 1
\* jobs handed to the cluster
MaxSubmits == 1
\* Date.now() at instant 0 of the clock
TimeOrigin == 46655

\* K8s names must be <= 63 characters
NameLimit == 63
\* the radix of Date.now().toString(36)
Radix == 36

Runs == 1..MaxRuns
Times == 0..MaxTime

\* ------------------------------------------------------------------ state

VARIABLES
    now,        \* the clock read by Date / date -u
    runs,       \* the executions of the wrapped script, by slot
    callbackSecret, \* config x2a.callbackSecret ("" when not configured)
    file,       \* x2a-artifacts.jsonl: NoFile, or its content as chunks
    pending,    \* collectArtifacts calls awaiting appendFile, oldest first
    delivered,  \* history: the deliveries appended since the last clear
    returned,   \* what the service operation that just settled returned
    submitted,  \* the jobs handed to createNamespacedJob, oldest first
    jobs,       \* the jobs the cluster accepted, oldest first
    creating,   \* the POST /jobs request awaiting createNamespacedJob
    response,   \* what POST /jobs answered to the request that just settled
    config,     \* the configuration JobsService was constructed with
    built,      \* what the buildCommand call that just returned produced
    pods        \* the pods the cluster has started for its jobs, oldest first

vars == <<now, runs, callbackSecret, file, pending, delivered, returned,
          submitted, jobs, creating, response, config, built, pods>>

ledgerVars == <<callbackSecret, file, pending, delivered, returned>>

jobVars == <<submitted, jobs, creating, response, config, built, pods>>

\* ------------------------------------------------------------------ clock

\* new Date().toISOString(): the instant as text
ToISOString(t) == <<t>>

\* date -u +"%Y-%m-%dT%H:%M:%SZ": the instant as text
DateUtc(t) == <<t>>

Tick ==
    /\ now < MaxTime
    /\ now' = now + 1
    /\ UNCHANGED <<runs, ledgerVars, jobVars>>

\* ------------------------------------------------- the wrapped script

\* Exit statuses the inlined command finishes with.
InnerCodes == {0, 7}

\* What the text inlined at the top of the script does to the shell that
\* runs it: "returns" hands control to the next line with $? set (a process
\* that ran to completion); "exits" ends the shell itself (an exit reached
\* inside the inlined text, e.g. through a request value such as
\* x"; exit 7; echo " interpolated by buildCommand).
InnerKinds == {"returns", "exits"}

InnerCommands == [kind : InnerKinds, code : InnerCodes]

\* The container environment the job specification gives the script.
CallbackUrls == {"", "http://localhost:7007/x2a/collectArtifacts"}
CallbackSecrets == {"", "s3cret"}
JobNames == {"x2a-init-demo-a"}
Phases == {"init", "migrate"}

Envs ==
    [JOB_NAME : JobNames, MIGRATION_PHASE : Phases,
     CALLBACK_URL : CallbackUrls, CALLBACK_SECRET : CallbackSecrets]

\* curl --max-time 10 --silent --show-error: its exit status when a response
\* came back, when the connection failed, when the 10 seconds ran out.
CurlExit(outcome) ==
    CASE outcome = "ok" -> 0
      [] outcome = "refused" -> 7
      [] outcome = "timeout" -> 28

CurlOutcomes == {"ok", "refused", "timeout"}

NoExit == -1

IdleRun ==
    [pc |-> "idle",
     env |-> [JOB_NAME |-> "", MIGRATION_PHASE |-> "", CALLBACK_URL |-> "",
              CALLBACK_SECRET |-> ""],
     inner |-> [kind |-> "returns", code |-> 0],
     status |-> 0, EXIT_CODE |-> NoExit, STATUS |-> "", TIMESTAMP |-> <<>>,
     CALLBACK_PAYLOAD |-> <<>>, posts |-> <<>>, curl |-> NoExit,
     exit |-> NoExit]

\* /bin/sh -c <script> starts in a container with environment env.
StartRun(r, env, inner) ==
    /\ runs[r].pc \in {"idle", "done"}
    /\ runs' = [runs EXCEPT ![r] = [IdleRun EXCEPT !.pc = "inner", !.env = env,
                                                   !.inner = inner]]
    /\ UNCHANGED <<now, ledgerVars, jobVars>>

\* ${actualCommand}
RunInner(r) ==
    /\ runs[r].pc = "inner"
    /\ runs' = [runs EXCEPT ![r] =
                  IF runs[r].inner.kind = "exits"
                    THEN [@ EXCEPT !.pc = "done", !.exit = runs[r].inner.code]
                    ELSE [@ EXCEPT !.pc = "capture", !.status = runs[r].inner.code]]
    /\ UNCHANGED <<now, ledgerVars, jobVars>>

\* EXIT_CODE=$?
CaptureExitCode(r) ==
    /\ runs[r].pc = "capture"
    /\ runs' = [runs EXCEPT ![r] = [@ EXCEPT !.pc = "status",
                                             !.EXIT_CODE = runs[r].status,
                                             !.status = 0]]
    /\ UNCHANGED <<now, ledgerVars, jobVars>>

StatusOfInverted(exitCode) == IF exitCode # 0 THEN "success" ELSE "failure"

\* if [ $EXIT_CODE -eq 0 ]; then STATUS="success"; else STATUS="failure"; fi
StatusOf(exitCode) == IF exitCode = 0 THEN "success" ELSE "failure"

DetermineStatus(r) ==
    /\ runs[r].pc = "status"
    /\ runs' = [runs EXCEPT ![r] = [@ EXCEPT !.pc = "payload",
                                             !.STATUS = StatusOf(runs[r].EXIT_CODE),
                                             !.status = 0]]
    /\ UNCHANGED <<now, ledgerVars, jobVars>>

\* The here-document: the JSON text with the shell variables substituted.
CallbackPayload(run, timestamp) ==
    [jobName |-> run.env.JOB_NAME, phase |-> run.env.MIGRATION_PHASE,
     status |-> run.STATUS, timestamp |-> timestamp]

\* TIMESTAMP=$(date -u ...); CALLBACK_PAYLOAD=$(cat <<EOF ... EOF)
BuildPayload(r) ==
    /\ runs[r].pc = "payload"
    /\ runs' = [runs EXCEPT ![r] =
                  [@ EXCEPT !.pc = "callback",
                            !.TIMESTAMP = DateUtc(now),
                            !.CALLBACK_PAYLOAD = <<CallbackPayload(runs[r], DateUtc(now))>>,
                            !.status = 0]]
    /\ UNCHANGED <<now, ledgerVars, jobVars>>

\* The request one curl -X POST makes: the X-Callback-Secret header is sent
\* only by the branch taken when CALLBACK_SECRET is non-empty.
CurlPost(run) ==
    [url |-> run.env.CALLBACK_URL,
     secretHeader |-> IF run.env.CALLBACK_SECRET # ""
                        THEN <<run.env.CALLBACK_SECRET>> ELSE <<>>,
     body |-> run.CALLBACK_PAYLOAD[1]]

\* if [ -n "$CALLBACK_URL" ]; then ... curl ... || echo "Warning: ..."; fi
CallCallback(r) ==
    /\ runs[r].pc = "callback"
    /\ IF runs[r].env.CALLBACK_URL # ""
         THEN \E outcome \in CurlOutcomes :
                 \* $? is 0 after curl succeeded, and 0 after the echo that
                 \* runs when curl's status CurlExit(outcome) is not 0
                 runs' = [runs EXCEPT ![r] =
                            [@ EXCEPT !.pc = "exit",
                                      !.posts = Append(@, CurlPost(runs[r])),
                                      !.curl = CurlExit(outcome),
                                      !.status = IF CurlExit(outcome) = 0
                                                   THEN CurlExit(outcome) ELSE 0]]
         ELSE runs' = [runs EXCEPT ![r] = [@ EXCEPT !.pc = "exit", !.status = 0]]
    /\ UNCHANGED <<now, ledgerVars, jobVars>>

ScriptExitCodeLast(run) == run.status

\* The operand of the final exit: $EXIT_CODE
ScriptExitCode(run) == run.EXIT_CODE

\* exit $EXIT_CODE
ExitScript(r) ==
    /\ runs[r].pc = "exit"
    /\ runs' = [runs EXCEPT ![r] = [@ EXCEPT !.pc = "done",
                                             !.exit = ScriptExitCode(runs[r])]]
    /\ UNCHANGED <<now, ledgerVars, jobVars>>

WrapperNext ==
    \/ Tick
    \/ \E r \in Runs, env \in Envs, inner \in InnerCommands : StartRun(r, env, inner)
    \/ \E r \in Runs : RunInner(r)
    \/ \E r \in Runs : CaptureExitCode(r)
    \/ \E r \in Runs : DetermineStatus(r)
    \/ \E r \in Runs : BuildPayload(r)
    \/ \E r \in Runs : CallCallback(r)
    \/ \E r \in Runs : ExitScript(r)

\* ------------------------------------------------- the artifact ledger

\* Completion reports a delivery may carry (the request body, parsed from
\* JSON): a wrapper payload, a second report for the same job without a
\* timestamp, and a report whose timestamp is the empty string.
Reports ==
    { [jobName |-> "x2a-init-demo-a", phase |-> "init", status |-> "success",
       timestamp |-> <<0>>],
      [jobName |-> "x2a-init-demo-a", phase |-> "init", status |-> "failure"],
      [jobName |-> "x2a-migrate-web-b", phase |-> "migrate", status |-> "success",
       timestamp |-> <<>>, migrationId |-> "m1"] }

\* The X-Callback-Secret header of a delivery: <<>> when it is not sent.
SecretHeaders == {<<>>, <<"s3cret">>}

Nothing == [op |-> "none"]

\* JavaScript's truthiness of a string: only the empty string is falsy.
Truthy(str) == str # <<>>

EnrichOverwriting(request, t) ==
    [k \in DOMAIN request \cup {"timestamp", "collectedAt"} |->
        IF k \in {"timestamp", "collectedAt"} THEN ToISOString(t) ELSE request[k]]

\* { ...request, timestamp: request.timestamp || new Date().toISOString(),
\*   collectedAt: new Date().toISOString() }
Enrich(request, t) ==
    [k \in DOMAIN request \cup {"timestamp", "collectedAt"} |->
        CASE k = "collectedAt" -> ToISOString(t)
          [] k = "timestamp" ->
               IF "timestamp" \in DOMAIN request /\ Truthy(request.timestamp)
                 THEN request.timestamp ELSE ToISOString(t)
          [] OTHER -> request[k]]

\* The text of a file is a sequence of chunks: the JSON text of an object,
\* a line feed, or a cut: a proper, non-empty prefix of an object's JSON text.
Newline == [t |-> "nl"]

\* The state of a path at which there is no file (open fails with ENOENT).
NoFile == <<[t |-> "ENOENT"]>>

JSONStringify(obj) == [t |-> "json", obj |-> obj]
Cut(obj) == [t |-> "cut", obj |-> obj]

JsonLineNoNewline(obj) == <<JSONStringify(obj)>>

\* JSON.stringify(obj, null, 2) + '\n': the object's text spread over lines
JsonLinePretty(obj) == <<Cut(obj), Newline, Cut(obj), Newline>>

\* JSON.stringify(enrichedRequest) + '\n'
JsonLine(obj) == <<JSONStringify(obj), Newline>>

WriteFile(f, data) == data

\* fs.promises.appendFile(path, data): the file is opened with O_APPEND and
\* created when missing; the data of one call lands at the end in one write.
AppendFile(f, data) == IF f = NoFile THEN data ELSE f \o data

\* String.prototype.trim on the content: line feeds at both ends go.
RECURSIVE TrimStart(_)
TrimStart(content) ==
    IF content # <<>> /\ Head(content) = Newline
      THEN TrimStart(Tail(content)) ELSE content

RECURSIVE TrimEnd(_)
TrimEnd(content) ==
    IF content # <<>> /\ content[Len(content)] = Newline
      THEN TrimEnd(SubSeq(content, 1, Len(content) - 1)) ELSE content

Trim(content) == TrimEnd(TrimStart(content))

\* String.prototype.split('\n'): the pieces between line feeds; the empty
\* string gives one empty piece.
RECURSIVE Split(_, _)
Split(content, piece) ==
    IF content = <<>> THEN <<piece>>
    ELSE IF Head(content) = Newline
      THEN <<piece>> \o Split(Tail(content), <<>>)
      ELSE Split(Tail(content), Append(piece, Head(content)))

\* .filter(line => line.length > 0)
NonEmptyLines(lines) == SelectSeq(lines, LAMBDA line : Len(line) > 0)

\* JSON.parse(line) succeeds exactly on the whole text of one object.
Parses(line) == Len(line) = 1 /\ line[1].t = "json"
JSONParse(line) == line[1].obj

Ok(value) == [ok |-> TRUE, value |-> value]
Threw(error) == [ok |-> FALSE, error |-> error]

GetArtifactsRethrowing(f, fsError) ==
    IF fsError # "" THEN Threw(fsError)
    ELSE IF f = NoFile THEN Threw("ENOENT")
    ELSE Ok(<<>>)

\* getArtifacts once readFile has settled with the file as f, or rejected
\* with fsError ("" when the file system raises no error of its own).
GetArtifacts(f, fsError) ==
    IF fsError # "" THEN Threw(fsError)
    ELSE IF f = NoFile THEN Ok(<<>>)
    ELSE LET lines == NonEmptyLines(Split(Trim(f), <<>>))
         IN  IF \A i \in 1..Len(lines) : Parses(lines[i])
               THEN Ok([i \in 1..Len(lines) |-> JSONParse(lines[i])])
               ELSE Threw("SyntaxError")

FindLast(artifacts, jobName) ==
    LET hits == SelectSeq(artifacts, LAMBDA a : a.jobName = jobName)
    IN  IF hits = <<>> THEN <<>> ELSE <<hits[Len(hits)]>>

\* artifacts.find(artifact => artifact.jobName === jobName): <<>> stands for
\* undefined, <<a>> for the artifact found.
Find(artifacts, jobName) ==
    LET hits == SelectSeq(artifacts, LAMBDA a : a.jobName = jobName)
    IN  IF hits = <<>> THEN <<>> ELSE <<hits[1]>>

GetArtifactsByJobNameAny(f, fsError, jobName) ==
    LET artifacts == GetArtifacts(f, fsError)
    IN  IF ~artifacts.ok THEN artifacts
        ELSE IF artifacts.value = <<>> THEN Ok(<<>>)
        ELSE Ok(<<artifacts.value[1]>>)

GetArtifactsByJobName(f, fsError, jobName) ==
    LET artifacts == GetArtifacts(f, fsError)
    IN  IF artifacts.ok THEN Ok(Find(artifacts.value, jobName)) ELSE artifacts

\* Errors the file system raises on its own account.
FsErrors == {"", "EACCES"}

\* collectArtifacts up to its await: the request is enriched and serialised,
\* and appendFile is started.  The header of the delivery is not a parameter
\* of collectArtifacts; it is kept with the call as history only, as is the
\* instant the call began.
CollectArtifactsBegin(request, header) ==
    /\ Len(pending) < MaxCalls
    /\ Len(pending) + Len(delivered) < MaxAppends
    /\ pending' = Append(pending,
                    [request |-> request, header |-> header,
                     began |-> now,
                     enriched |-> Enrich(request, now),
                     jsonLine |-> JsonLine(Enrich(request, now))])
    /\ returned' = Nothing
    /\ UNCHANGED <<now, runs, jobVars, callbackSecret, file, delivered>>

CollectArtifactsResultSwallowing(fsError) == Ok(<<>>)

\* What collectArtifacts settles with once appendFile has resolved, or has
\* rejected with fsError: the catch logs the error and rethrows it.
CollectArtifactsResult(fsError) ==
    IF fsError = "" THEN Ok(<<>>) ELSE Threw(fsError)

\* collectArtifacts from the await on: appendFile settles for the i-th call
\* in flight, and the call returns, or logs and rethrows the error.
CollectArtifactsEnd(i, fsError) ==
    /\ i \in 1..Len(pending)
    /\ pending' = SubSeq(pending, 1, i - 1) \o SubSeq(pending, i + 1, Len(pending))
    /\ returned' = [op |-> "collectArtifacts", call |-> pending[i],
                    result |-> CollectArtifactsResult(fsError)]
    /\ IF fsError = ""
         THEN /\ file' = AppendFile(file, pending[i].jsonLine)
              /\ delivered' = Append(delivered, pending[i])
         ELSE UNCHANGED <<file, delivered>>
    /\ UNCHANGED <<now, runs, jobVars, callbackSecret>>

\* getArtifacts(): readFile settles with the file as it is at that moment.
GetArtifactsCall(fsError) ==
    /\ returned' = [op |-> "getArtifacts", inFlight |-> Len(pending),
                    fsError |-> fsError, result |-> GetArtifacts(file, fsError)]
    /\ UNCHANGED <<now, runs, jobVars, callbackSecret, file, pending, delivered>>

\* getArtifactsByJobName(jobName)
GetArtifactsByJobNameCall(jobName, fsError) ==
    /\ returned' = [op |-> "getArtifactsByJobName", jobName |-> jobName,
                    inFlight |-> Len(pending), fsError |-> fsError,
                    result |-> GetArtifactsByJobName(file, fsError, jobName)]
    /\ UNCHANGED <<now, runs, jobVars, callbackSecret, file, pending, delivered>>

\* fs.promises.unlink(path) on the file as f: the code of the error it
\* rejects with, "" when it resolves.
Unlink(f, fsError) ==
    IF fsError # "" THEN fsError ELSE IF f = NoFile THEN "ENOENT" ELSE ""

ClearArtifactsResultRethrowing(error) ==
    IF error = "" THEN Ok(<<>>) ELSE Threw(error)

\* What clearArtifacts settles with: ENOENT is swallowed, any other error
\* is logged and rethrown.
ClearArtifactsResult(error) ==
    IF error # "" /\ error # "ENOENT" THEN Threw(error) ELSE Ok(<<>>)

\* clearArtifacts(); whether the file was there is kept with the result as
\* history.
ClearArtifacts(fsError) ==
    /\ returned' = [op |-> "clearArtifacts", existed |-> file # NoFile,
                    result |-> ClearArtifactsResult(Unlink(file, fsError))]
    /\ IF Unlink(file, fsError) = ""
         THEN /\ file' = NoFile
              /\ delivered' = <<>>
         ELSE UNCHANGED <<file, delivered>>
    /\ UNCHANGED <<now, runs, jobVars, callbackSecret, pending>>

\* The clock moves while the service is idle or between two of its steps.
LedgerTick ==
    /\ now < MaxTime
    /\ now' = now + 1
    /\ returned' = Nothing
    /\ UNCHANGED <<runs, jobVars, callbackSecret, file, pending, delivered>>

\* The writes a crash cut short that f holds: cuts, and texts of an object
\* with no line feed behind them.
TornWrites(f) ==
    IF f = NoFile THEN 0
    ELSE Cardinality({i \in 1..Len(f) :
            \/ f[i].t = "cut"
            \/ f[i].t = "json" /\ (i = Len(f) \/ f[i + 1].t # "nl")})

\* The process dies while the appendFile of the i-th call in flight is
\* writing: a cut of its line, or the line short of its line feed, is left
\* at the end of the file, and every call in flight is gone.
CrashDuringAppend(i, wholeText) ==
    /\ i \in 1..Len(pending)
    /\ TornWrites(file) < MaxCrashes
    /\ file' = AppendFile(file, IF wholeText
                                  THEN <<JSONStringify(pending[i].enriched)>>
                                  ELSE <<Cut(pending[i].enriched)>>)
    /\ pending' = <<>>
    /\ returned' = Nothing
    /\ UNCHANGED <<now, runs, jobVars, callbackSecret, delivered>>

LookupNames == {"x2a-init-demo-a", "x2a-migrate-web-b"}

LedgerNext ==
    \/ LedgerTick
    \/ \E request \in Reports, header \in SecretHeaders :
          CollectArtifactsBegin(request, header)
    \/ \E i \in 1..MaxCalls, fsError \in FsErrors : CollectArtifactsEnd(i, fsError)
    \/ \E fsError \in FsErrors : GetArtifactsCall(fsError)
    \/ \E jobName \in LookupNames, fsError \in FsErrors :
          GetArtifactsByJobNameCall(jobName, fsError)
    \/ \E fsError \in FsErrors : ClearArtifacts(fsError)

\* ------------------------------------------------- job identities

\* JavaScript strings that the code takes apart are sequences of characters.
LowerCase == <<"a", "b", "c", "d", "e", "f", "g", "h", "i", "j", "k", "l", "m",
               "n", "o", "p", "q", "r", "s", "t", "u", "v", "w", "x", "y", "z">>
UpperCase == <<"A", "B", "C", "D", "E", "F", "G", "H", "I", "J", "K", "L", "M",
               "N", "O", "P", "Q", "R", "S", "T", "U", "V", "W", "X", "Y", "Z">>
Digits == <<"0", "1", "2", "3", "4", "5", "6", "7", "8", "9">>

Range(seq) == {seq[i] : i \in 1..Len(seq)}

\* [a-z0-9]
AlphaNumeric == Range(LowerCase) \cup Range(Digits)

\* Date.now(): milliseconds since the epoch at instant t of the clock
DateNow(t) == TimeOrigin + t

\* Number.prototype.toString(36)
RECURSIVE ToString36(_)
ToString36(n) ==
    LET digit == (Digits \o LowerCase)[(n % Radix) + 1]
    IN  IF n < Radix THEN <<digit>> ELSE Append(ToString36(n \div Radix), digit)

ToLowerCaseNone(str) == str

\* String.prototype.toLowerCase
ToLowerCase(str) ==
    [i \in 1..Len(str) |->
        IF \E k \in 1..Len(UpperCase) : UpperCase[k] = str[i]
          THEN LowerCase[CHOOSE k \in 1..Len(UpperCase) : UpperCase[k] = str[i]]
          ELSE str[i]]

\* .replace(/[^a-z0-9]/g, '-')
ReplaceNonAlphaNumeric(str) ==
    [i \in 1..Len(str) |-> IF str[i] \in AlphaNumeric THEN str[i] ELSE "-"]

SubstringToEnd(str, start, end) == SubSeq(str, start + 1, Len(str))

\* String.prototype.substring(start, end) for 0 <= start <= end
Substring(str, start, end) ==
    SubSeq(str, start + 1, IF end < Len(str) THEN end ELSE Len(str))

\* generateJobName(phase, name) when Date.now() returns millis
GenerateJobName(phase, name, millis) ==
    LET timestamp == ToString36(millis)
        clean == ReplaceNonAlphaNumeric(ToLowerCase(name))
    IN  Substring(<<"x", "2", "a", "-">> \o phase \o <<"-">> \o clean
                    \o <<"-">> \o timestamp, 0, NameLimit)

\* ------------------------------------------------- job creation

Repeat(c, n) == [i \in 1..n |-> c]

\* MigrationPhase
PhaseInit == <<"i", "n", "i", "t">>
PhaseAnalyze == <<"a", "n", "a", "l", "y", "z", "e">>
PhaseMigrate == <<"m", "i", "g", "r", "a", "t", "e">>
PhasePublish == <<"p", "u", "b", "l", "i", "s", "h">>
MigrationPhases == {PhaseInit, PhaseAnalyze, PhaseMigrate, PhasePublish}

\* A phase no case of buildCommand names.
PhaseDeploy == <<"d", "e", "p", "l", "o", "y">>

\* Names a request may carry: a plain one, one with upper case, a space and
\* punctuation, one that fills an init identity up to the dash before the
\* timestamp, and one as long as the limit.
NameDemo == <<"d", "e", "m", "o">>
NameMixed == <<"M", "y", " ", "A", "p", "p", "!">>
NameLong == Repeat("a", NameLimit - Len(<<"x", "2", "a", "-">> \o PhaseInit \o <<"-">>) - 1)
NameHuge == Repeat("b", NameLimit)

Description == <<"d">>

\* Bodies of POST /jobs, parsed from JSON: a field that is not sent is not
\* in the domain of the record.
JobRequests ==
    [phase : {PhaseInit},
     name : {NameDemo, NameMixed, NameLong, NameHuge},
     description : {Description}]
    \cup [phase : {PhaseAnalyze, PhaseMigrate, PhasePublish, PhaseDeploy, <<>>},
          name : {NameDemo}, description : {Description}]
    \cup { [phase |-> PhaseInit, name |-> <<>>, description |-> Description],
           [phase |-> PhaseInit, name |-> NameDemo, description |-> <<>>],
           [name |-> NameDemo, description |-> Description],
           [phase |-> PhaseInit, description |-> Description],
           [phase |-> PhaseInit, name |-> NameDemo],
           [phase |-> PhaseDeploy, name |-> NameDemo],
           [phase |-> PhaseMigrate, name |-> NameDemo, description |-> Description,
            moduleName |-> <<"m">>, sourceTechnology |-> <<"c">>] }

\* !obj.key is false: the field is there and is not the empty string.
Has(obj, key) == key \in DOMAIN obj /\ Truthy(obj[key])

ValidIfPresent(jobRequest) ==
    {"phase", "name", "description"} \subseteq DOMAIN jobRequest

\* The required-fields test of POST /jobs, negated: the request goes on.
Valid(jobRequest) ==
    ~(~Has(jobRequest, "phase") \/ ~Has(jobRequest, "name")
        \/ ~Has(jobRequest, "description"))

\* ------------------------------------------------- commands

\* A command is text for /bin/sh -c: a sequence of pieces, each a character
\* of a request value or a word, a space, a double quote or an operator of
\* the template.
Sp == " "
Dq == "\""

\* ${req.key} in a template literal: a field that is not there renders as
\* the text undefined.
Interpolate(req, key) == IF key \in DOMAIN req THEN req[key] ELSE <<"undefined">>

\* req.key || fallback
OrElse(req, key, fallback) == IF Has(req, key) THEN req[key] ELSE fallback

\* const cmd, in the two versions of JobsService
Tool == <<"uv", Sp, "run", Sp, "python", Sp, "app.py">>
ToolMinimal == <<"python", Sp, "-m", Sp, "app">>

\* const dir
Dir == <<"/app/source">>

\* case 'init'
InitCommand(cmd, req) ==
    cmd \o <<Sp, "init", Sp, "--source-dir", Sp>> \o Dir
        \o <<Sp, Dq>> \o Interpolate(req, "description") \o <<Dq>>

\* case 'analyze'
AnalyzeCommand(cmd, req) ==
    cmd \o <<Sp, "analyze", Sp, Dq>> \o Interpolate(req, "description")
        \o <<Dq, Sp, "--source-dir", Sp>> \o Dir

\* case 'migrate'
MigrateCommand(cmd, req) ==
    cmd \o <<Sp, "migrate", Sp, "--source-dir", Sp>> \o Dir
        \o <<Sp, "--source-technology", Sp>>
        \o OrElse(req, "sourceTechnology", <<"Chef">>)
        \o <<Sp, "--high-level-migration-plan", Sp, "migration-plan.md">>
        \o <<Sp, "--module-migration-plan", Sp, "migration-plan-">>
        \o Interpolate(req, "moduleName") \o <<".md">>
        \o <<Sp, Dq, "Convert", Sp>> \o Interpolate(req, "moduleName") \o <<Dq>>

\* Array.prototype.join
RECURSIVE Join(_, _)
Join(items, separator) ==
    IF items = <<>> THEN <<>>
    ELSE IF Len(items) = 1 THEN items[1]
    ELSE items[1] \o separator \o Join(Tail(items), separator)

\* req.sourcePaths?.join(' --source-paths ') || `${dir}/ansible/roles/${req.moduleName}`
SourcePaths(req) ==
    LET joined == IF "sourcePaths" \in DOMAIN req
                    THEN Join(req.sourcePaths, <<Sp, "--source-paths", Sp>>)
                    ELSE <<>>
    IN  IF joined # <<>> THEN joined
        ELSE Dir \o <<"/ansible/roles/">> \o Interpolate(req, "moduleName")

\* if (req.key) publishCmd += ` ${flag} ${req.key}`
OptionalFlag(req, key, flag) ==
    IF Has(req, key) THEN <<Sp, flag, Sp>> \o req[key] ELSE <<>>

\* const gitSetup
GitSetup ==
    <<"git", Sp, "config", Sp, "--global", Sp, "url.", Dq,
      "https://${GITHUB_TOKEN}@github.com/", Dq, ".insteadOf", Sp,
      Dq, "https://github.com/", Dq>>

\* let publishCmd, with the flags appended to it
PublishCmd(req) ==
    Tool \o <<Sp, "publish", Sp, Dq>> \o Interpolate(req, "moduleName")
         \o <<Dq, Sp, "--source-paths", Sp>> \o SourcePaths(req)
         \o <<Sp, "--github-owner", Sp>> \o Interpolate(req, "githubOwner")
         \o <<Sp, "--github-branch", Sp>>
         \o OrElse(req, "githubBranch", <<"test_test_1">>)
         \o (IF "skipGit" \in DOMAIN req /\ req.skipGit THEN <<Sp, "--skip-git">>
             ELSE <<>>)
         \o OptionalFlag(req, "basePath", "--base-path")
         \o OptionalFlag(req, "collectionsFile", "--collections-file")
         \o OptionalFlag(req, "inventoryFile", "--inventory-file")

\* case 'publish' of the version with the callback
PublishCommand(req) == GitSetup \o <<Sp, "&&", Sp>> \o PublishCmd(req)

\* case 'publish' of the version without the callback
PublishCommandMinimal(req) ==
    ToolMinimal \o <<Sp, "publish", Sp, Dq>> \o Interpolate(req, "moduleName")
        \o <<Dq, Sp, "--source-paths", Sp>> \o Dir \o <<"/ansible/roles/">>
        \o Interpolate(req, "moduleName")
        \o <<Sp, "--github-owner", Sp>> \o Interpolate(req, "githubOwner")
        \o <<Sp, "--github-branch", Sp, "main">>

\* The argument of /bin/sh -c when the command is handed on as it is.
Unwrapped(actualCommand) == [wrapped |-> FALSE, actualCommand |-> actualCommand]

\* wrapCommandWithCallback(actualCommand): the callback script with the
\* command inlined as its first line.
WrapCommandWithCallback(actualCommand) ==
    [wrapped |-> TRUE, actualCommand |-> actualCommand]

BuildCommandAnyPhase(req) == Ok(WrapCommandWithCallback(InitCommand(Tool, req)))

\* buildCommand(req) of the version with the callback: the switch on
\* req.phase, its default, and the wrapping of what the case produced
BuildCommand(req) ==
    CASE req.phase = PhaseInit -> Ok(WrapCommandWithCallback(InitCommand(Tool, req)))
      [] req.phase = PhaseAnalyze ->
           Ok(WrapCommandWithCallback(AnalyzeCommand(Tool, req)))
      [] req.phase = PhaseMigrate ->
           Ok(WrapCommandWithCallback(MigrateCommand(Tool, req)))
      [] req.phase = PhasePublish -> Ok(WrapCommandWithCallback(PublishCommand(req)))
      [] OTHER -> Threw("Unknown phase")

\* buildCommand(req) of the version without the callback
BuildCommandMinimal(req) ==
    CASE req.phase = PhaseInit -> Ok(Unwrapped(InitCommand(ToolMinimal, req)))
      [] req.phase = PhaseAnalyze -> Ok(Unwrapped(AnalyzeCommand(ToolMinimal, req)))
      [] req.phase = PhaseMigrate -> Ok(Unwrapped(MigrateCommand(ToolMinimal, req)))
      [] req.phase = PhasePublish -> Ok(Unwrapped(PublishCommandMinimal(req)))
      [] OTHER -> Threw("Unknown phase")

\* The configurations the service is constructed with: which of the two
\* versions of JobsService is deployed, and config x2a.namespace ("" when it
\* is not set).
Configs ==
    { [version |-> "callback", namespace |-> ""],
      [version |-> "minimal", namespace |-> ""],
      [version |-> "minimal", namespace |-> "team-a"] }

\* this.namespace
Namespace(cfg) ==
    IF cfg.namespace # "" THEN cfg.namespace
    ELSE IF cfg.version = "callback" THEN "rhdh" ELSE "x2a"

\* backend.baseUrl is not set
CallbackUrl == "http://localhost:7007/x2a/collectArtifacts"

EnvOfRequestName(cfg, request, jobName, secret) ==
    IF cfg.version = "callback"
      THEN [CALLBACK_URL |-> CallbackUrl, CALLBACK_SECRET |-> secret,
            JOB_NAME |-> request.name, MIGRATION_PHASE |-> request.phase]
      ELSE [LLM_MODEL |-> "anthropic.claude-3-7-sonnet-20250219-v1:0"]

\* The env block of the container, the references to secrets left out.
Env(cfg, request, jobName, secret) ==
    IF cfg.version = "callback"
      THEN [CALLBACK_URL |-> CallbackUrl, CALLBACK_SECRET |-> secret,
            JOB_NAME |-> jobName, MIGRATION_PHASE |-> request.phase]
      ELSE [LLM_MODEL |-> "anthropic.claude-3-7-sonnet-20250219-v1:0"]

\* The V1Job that createJob hands to the cluster.
Job(request, jobName, command, secret) ==
    [metadata |-> [name |-> jobName, namespace |-> Namespace(config),
                   labels |-> [app |-> "x2a-convertor", phase |-> request.phase],
                   annotations |-> [description |-> request.description]],
     spec |-> [backoffLimit |-> 1, restartPolicy |-> "Never",
               command |-> <<"/bin/sh", "-c">>, args |-> <<command>>,
               env |-> Env(config, request, jobName, secret)]]

\* createJob up to its await: the identity, the command and the job; an
\* error thrown on the way rejects the call before anything is submitted.
CreateJobPrepare(request, millis, secret) ==
    LET jobName == GenerateJobName(request.phase, request.name, millis)
        command == IF config.version = "callback" THEN BuildCommand(request)
                                                  ELSE BuildCommandMinimal(request)
    IN  IF command.ok
          THEN Ok([jobName |-> jobName,
                   job |-> Job(request, jobName, command.value, secret)])
          ELSE command

\* A name the cluster takes for an object: lower-case letters, digits and
\* dashes, an alphanumeric character at both ends, no longer than the limit.
IsResourceName(name) ==
    /\ name # <<>>
    /\ Len(name) <= NameLimit
    /\ Range(name) \subseteq AlphaNumeric \cup {"-"}
    /\ name[1] \in AlphaNumeric
    /\ name[Len(name)] \in AlphaNumeric

\* batchApi.createNamespacedJob(namespace, job) against a cluster that holds
\* the jobs of held: the outcomes the cluster may answer with.
CreateNamespacedJob(job, held) ==
    IF ~IsResourceName(job.metadata.name) THEN {"Invalid"}
    ELSE IF \E i \in 1..Len(held) : held[i].metadata.name = job.metadata.name
      THEN {"AlreadyExists", "Forbidden"}
      ELSE {"Created", "Forbidden"}

Outcomes == {"Created", "Forbidden", "AlreadyExists", "Invalid"}

CreateJobResultSwallowing(call, outcome) == Ok(call.jobName)

\* createJob from its await on: the identity when the cluster created the
\* job, the error of the cluster otherwise.
CreateJobResult(call, outcome) ==
    IF outcome = "Created" THEN Ok(call.jobName) ELSE Threw(outcome)

\* The answers of POST /jobs.
BadRequest(jobRequest) ==
    [op |-> "postJobs", request |-> jobRequest, createJob |-> Nothing,
     status |-> 400,
     body |-> [error |-> "Missing required fields: phase, name, description"]]

Failed(jobRequest, result) ==
    [op |-> "postJobs", request |-> jobRequest, createJob |-> result,
     status |-> 500,
     body |-> [error |-> "Failed to create job", details |-> result.error]]

Created(jobRequest, result) ==
    [op |-> "postJobs", request |-> jobRequest, createJob |-> result,
     status |-> 201,
     body |-> [jobName |-> result.value, namespace |-> "x2a",
               phase |-> jobRequest.phase, created |-> TRUE]]

\* POST /jobs up to the await of createNamespacedJob: the required fields
\* are tested, createJob builds the job and submits it.
PostJobs(jobRequest) ==
    /\ creating = Nothing
    /\ IF ~Valid(jobRequest)
         THEN /\ response' = BadRequest(jobRequest)
              /\ UNCHANGED <<submitted, creating>>
         ELSE LET call == CreateJobPrepare(jobRequest, DateNow(now), callbackSecret)
              IN  IF call.ok
                    THEN /\ Len(submitted) < MaxSubmits
                         /\ submitted' = Append(submitted, call.value.job)
                         /\ creating' = [request |-> jobRequest, at |-> now,
                                         jobName |-> call.value.jobName,
                                         job |-> call.value.job]
                         /\ response' = Nothing
                    ELSE /\ response' = Failed(jobRequest, call)
                         /\ UNCHANGED <<submitted, creating>>
    /\ UNCHANGED <<now, runs, ledgerVars, jobs, config, built, pods>>

\* POST /jobs from the await on: the cluster answers, createJob returns or
\* rethrows, and the request is answered.
PostJobsSettle(outcome) ==
    /\ creating # Nothing
    /\ outcome \in CreateNamespacedJob(creating.job, jobs)
    /\ creating' = Nothing
    /\ jobs' = IF outcome = "Created" THEN Append(jobs, creating.job) ELSE jobs
    /\ LET result == CreateJobResult(creating, outcome)
       IN  response' = IF result.ok THEN Created(creating.request, result)
                                    ELSE Failed(creating.request, result)
    /\ UNCHANGED <<now, runs, ledgerVars, submitted, config, built, pods>>

JobsNext ==
    \/ Tick
    \/ \E jobRequest \in JobRequests : PostJobs(jobRequest)
    \/ \E outcome \in Outcomes : PostJobsSettle(outcome)

\* ------------------------------------------------- the shell's reading

\* How /bin/sh reads a command line: a double quote opens or closes a
\* quoted stretch; outside quotes a space ends a word and ';' or '&&' ends
\* a command; every other piece belongs to the word around it, and a quoted
\* stretch makes a word even when it is empty.

\* Piece i of text stands inside double quotes.
Quoted(text, i) == Cardinality({j \in 1..(i - 1) : text[j] = Dq}) % 2 = 1

\* The positions from..to of text, in order, that hold one of pieces
\* outside quotes.
Unquoted(text, from, to, pieces) ==
    SelectSeq([k \in 1..(to - from + 1) |-> from + k - 1],
              LAMBDA i : text[i] \in pieces /\ ~Quoted(text, i))

\* The stretches lo..hi of from..to that lie between the positions at, the
\* empty ones left out.
Stretches(from, to, at) ==
    LET cuts == <<from - 1>> \o at \o <<to + 1>>
        all == [k \in 1..(Len(cuts) - 1) |->
                  [lo |-> cuts[k] + 1, hi |-> cuts[k + 1] - 1]]
    IN  SelectSeq(all, LAMBDA s : s.lo <= s.hi)

\* The words of the command at lo..hi of text.
ShellWords(text, lo, hi) ==
    LET words == Stretches(lo, hi, Unquoted(text, lo, hi, {Sp}))
    IN  [k \in 1..Len(words) |->
           SelectSeq(SubSeq(text, words[k].lo, words[k].hi), LAMBDA p : p # Dq)]

\* The commands of text, each the sequence of its words, each word the
\* sequence of its pieces.
ShellCommands(text) ==
    LET commands == Stretches(1, Len(text),
                              Unquoted(text, 1, Len(text), {";", "&&"}))
        read == [k \in 1..Len(commands) |->
                   ShellWords(text, commands[k].lo, commands[k].hi)]
    IN  SelectSeq(read, LAMBDA argv : argv # <<>>)

\* ------------------------------------------------- buildCommand alone

\* Values a request may carry: a plain one, one with a space, and one that
\* closes the quotes of the template and goes on with commands of its own.
Plain == <<"d">>
Spaced == <<"m", "y", Sp, "a", "p", "p">>
Hostile == <<"x", Dq, ";", Sp, "e", "x", "i", "t", Sp, "7", ";", Sp,
             "e", "c", "h", "o", Sp, Dq>>

ModuleName == <<"w", "e", "b">>

\* An optional field: <<>> when the request does not have it, <<v>> when
\* its value is v.
Field(key, option) == IF option = <<>> THEN <<>> ELSE key :> option[1]

PublishRequests ==
    { [phase |-> PhasePublish, name |-> NameDemo, description |-> Plain,
       moduleName |-> ModuleName, githubOwner |-> <<"o", "r", "g">>]
        @@ Field("sourcePaths", sourcePaths) @@ Field("githubBranch", githubBranch)
        @@ Field("skipGit", skipGit) @@ Field("basePath", basePath)
        @@ Field("collectionsFile", collectionsFile)
        @@ Field("inventoryFile", inventoryFile) :
      sourcePaths \in {<<>>, << <<>> >>, << << <<Dir[1], "/a">> >> >>,
                       << << <<Dir[1], "/a">>, <<Dir[1], "/b">> >> >>},
      githubBranch \in {<<>>, << <<"d", "e", "v">> >>},
      skipGit \in {<<>>, <<TRUE>>, <<FALSE>>},
      basePath \in {<<>>, << <<"b", "a", "s", "e">> >>},
      collectionsFile \in {<<>>, << <<"c", ".", "y", "m", "l">> >>},
      inventoryFile \in {<<>>, << <<"i", ".", "y", "m", "l">> >>} }

\* The requests buildCommand is called with.
CommandRequests ==
    [phase : {PhaseInit, PhaseAnalyze}, name : {NameDemo},
     description : {Plain, Spaced, Hostile}]
    \cup [phase : {PhaseMigrate}, name : {NameDemo}, description : {Plain},
          moduleName : {ModuleName},
          sourceTechnology : {<<>>, <<"P", "u", "p", "p", "e", "t">>}]
    \cup { [phase |-> PhaseMigrate, name |-> NameDemo, description |-> Plain,
            moduleName |-> ModuleName],
           [phase |-> PhaseMigrate, name |-> NameDemo, description |-> Plain],
           [phase |-> PhaseDeploy, name |-> NameDemo, description |-> Plain] }
    \cup PublishRequests

\* createJob's call of buildCommand, by itself.
BuildCommandCall(req) ==
    /\ built' = [request |-> req,
                 result |-> IF config.version = "callback"
                              THEN BuildCommand(req) ELSE BuildCommandMinimal(req)]
    /\ UNCHANGED <<now, runs, ledgerVars, submitted, jobs, creating, response,
                   config, pods>>

CommandNext == \E req \in CommandRequests : BuildCommandCall(req)

\* ------------------------------------------------- the jobs in the cluster

\* The requests the jobs in the cluster are created from.
ClusterRequests ==
    [phase : {PhaseInit}, name : {NameDemo}, description : {Plain, Hostile}]

\* What the first line of the script does in a pod of job: the tool returns
\* with some exit code, or, when the text holds an exit command, the shell
\* exits there.
PodInner(job) ==
    LET commands == ShellCommands(job.spec.args[1].actualCommand)
    IN  IF \E i \in 1..Len(commands) : commands[i][1] = <<"e", "x", "i", "t">>
          THEN [kind : {"exits"}, code : InnerCodes]
          ELSE [kind : {"returns"}, code : InnerCodes]

\* The pods the cluster has made for job j of jobs.
PodsOf(j) == {p \in 1..Len(pods) : pods[p].job = j}

\* The Job controller makes a pod for job j and the container starts
\* /bin/sh -c with the job's argument and env. With restartPolicy Never a
\* failed pod is not restarted in place; the controller makes a new pod as
\* long as no pod of the job runs or has succeeded and the failed pods are
\* no more than backoffLimit. The container takes the first free run.
StartPod(j, r, inner) ==
    /\ j \in 1..Len(jobs)
    /\ jobs[j].spec.restartPolicy = "Never"
    /\ jobs[j].spec.args[1].wrapped
    /\ runs[r].pc = "idle"
    /\ \A q \in Runs : q < r => runs[q].pc # "idle"
    /\ \A p \in PodsOf(j) : pods[p].phase = "Failed"
    /\ Cardinality(PodsOf(j)) <= jobs[j].spec.backoffLimit
    /\ inner \in PodInner(jobs[j])
    /\ pods' = Append(pods, [job |-> j, run |-> r, phase |-> "Running",
                             exit |-> NoExit, posts |-> <<>>])
    /\ runs' = [runs EXCEPT ![r] = [IdleRun EXCEPT !.pc = "inner",
                                                   !.env = jobs[j].spec.env,
                                                   !.inner = inner]]
    /\ UNCHANGED <<now, ledgerVars, submitted, jobs, creating, response, config,
                   built>>

\* The container of pod p has terminated: the pod has succeeded when the
\* script exited with 0 and failed otherwise.
PodFinished(p) ==
    /\ p \in 1..Len(pods)
    /\ pods[p].phase = "Running"
    /\ runs[pods[p].run].pc = "done"
    /\ pods' = [pods EXCEPT ![p] =
                  [@ EXCEPT !.phase = IF runs[pods[p].run].exit = 0
                                        THEN "Succeeded" ELSE "Failed",
                            !.exit = runs[pods[p].run].exit,
                            !.posts = runs[pods[p].run].posts]]
    /\ runs' = [runs EXCEPT ![pods[p].run] = IdleRun]
    /\ UNCHANGED <<now, ledgerVars, submitted, jobs, creating, response, config,
                   built>>

ClusterNext ==
    \/ Tick
    \/ \E jobRequest \in ClusterRequests : PostJobs(jobRequest)
    \/ \E outcome \in Outcomes : PostJobsSettle(outcome)
    \/ \E j \in 1..Len(jobs), r \in Runs, inner \in InnerCommands :
          StartPod(j, r, inner)
    \/ \E r \in Runs : \/ RunInner(r)
                       \/ CaptureExitCode(r)
                       \/ DetermineStatus(r)
                       \/ BuildPayload(r)
                       \/ CallCallback(r)
                       \/ ExitScript(r)
    \/ \E p \in 1..Len(pods) : PodFinished(p)

\* ------------------------------------------------------------------ init

\* The state once the services are constructed with configuration cfg and
\* callback secret secret.
Constructed(cfg, secret) ==
    /\ now = 0
    /\ runs = [r \in Runs |-> IdleRun]
    /\ callbackSecret = secret
    /\ file = NoFile
    /\ pending = <<>>
    /\ delivered = <<>>
    /\ returned = Nothing
    /\ submitted = <<>>
    /\ jobs = <<>>
    /\ creating = Nothing
    /\ response = Nothing
    /\ config = cfg
    /\ built = Nothing
    /\ pods = <<>>

\* The version with the callback, x2a.namespace not set.
Init ==
    \E secret \in CallbackSecrets :
        Constructed([version |-> "callback", namespace |-> ""], secret)

\* Either version, under each configuration; the version without the
\* callback reads no callback secret.
InitJobs ==
    \E cfg \in Configs, secret \in CallbackSecrets :
        /\ cfg.version = "minimal" => secret = ""
        /\ Constructed(cfg, secret)

SpecWrapper == Init /\ [][WrapperNext]_vars

SpecLedger == Init /\ [][LedgerNext]_vars

CrashNext ==
    \/ LedgerNext
    \/ \E i \in 1..MaxCalls, wholeText \in BOOLEAN : CrashDuringAppend(i, wholeText)

SpecCrash == Init /\ [][CrashNext]_vars

SpecJobs == InitJobs /\ [][JobsNext]_vars

SpecCommand == InitJobs /\ [][CommandNext]_vars

\* The version with the callback, its jobs run by the cluster.
SpecCluster == Init /\ [][ClusterNext]_vars

\* ------------------------------------------------------------------ claims

DoneRuns == {r \in Runs : runs[r].pc = "done"}

\* C1: whatever the inlined command and whatever becomes of the callback
\* (no URL, POST answered, POST refused or timed out), a script that has
\* exited has exited with the exit code of the inlined command.
C1_WrapperExitsWithInnerCode ==
    \A r \in DoneRuns : runs[r].exit = runs[r].inner.code

\* A run whose inlined command returned 7 and whose POST was refused has
\* ended.
C1_Witness ==
    \E r \in DoneRuns :
        /\ runs[r].inner = [kind |-> "returns", code |-> 7]
        /\ runs[r].curl = 7
        /\ runs[r].exit = 7

\* C2: every payload the wrapper posts says "success" exactly when the
\* inlined command ended with 0, and "failure" otherwise.
C2_StatusIffExitZero ==
    \A r \in Runs : \A i \in 1..Len(runs[r].posts) :
        LET status == runs[r].posts[i].body.status
        IN  /\ status \in {"success", "failure"}
            /\ (status = "success") <=> (runs[r].inner.code = 0)

\* A payload with status "failure" was posted for an inlined command that
\* ended with 7.
C2_Witness ==
    \E r \in Runs :
        /\ runs[r].inner.code = 7
        /\ Len(runs[r].posts) = 1
        /\ runs[r].posts[1].body.status = "failure"

\* C3: a script that has ended (its inlined command having ended) has
\* attempted exactly one POST when CALLBACK_URL is non-empty, and none when
\* it is empty.
C3_ExactlyOnePostPerRun ==
    \A r \in DoneRuns :
        Len(runs[r].posts) = IF runs[r].env.CALLBACK_URL # "" THEN 1 ELSE 0

\* ---- the ledger

\* The records appended since the last clear, in the order appended.
Appended == [i \in 1..Len(delivered) |-> delivered[i].enriched]

SecretMatches(header) == callbackSecret = "" \/ header = <<callbackSecret>>

\* C4: with a callback secret configured, a report delivered without the
\* matching X-Callback-Secret header is rejected and not recorded; what is
\* recorded arrived with the matching header, or no secret is configured.
C4_UnauthenticatedReportRejected ==
    /\ \A i \in 1..Len(delivered) : SecretMatches(delivered[i].header)
    /\ (returned.op = "collectArtifacts" /\ ~SecretMatches(returned.call.header))
          => ~returned.result.ok

\* C5: a lookup by job name returns the first record, in the order appended,
\* whose jobName matches (so the first of two reports of one job), and
\* undefined when none matches.
C5_LookupReturnsFirstAppended ==
    (returned.op = "getArtifactsByJobName" /\ returned.fsError = "") =>
        LET hits == {i \in 1..Len(Appended) : Appended[i].jobName = returned.jobName}
        IN  /\ returned.result.ok
            /\ hits = {} => returned.result.value = <<>>
            /\ hits # {} =>
                  \E i \in hits : /\ \A j \in hits : i <= j
                                  /\ returned.result.value = <<Appended[i]>>

\* Two different reports of one job are in the ledger and a lookup of that
\* job has returned the one appended first.
C5_Witness ==
    /\ returned.op = "getArtifactsByJobName"
    /\ Len(Appended) = 2
    /\ Appended[1].jobName = Appended[2].jobName
    /\ Appended[1].status # Appended[2].status
    /\ returned.jobName = Appended[1].jobName
    /\ returned.result = Ok(<<Appended[1]>>)

\* The collectArtifacts call that has just returned normally.
JustCollected == returned.op = "collectArtifacts" /\ returned.result.ok

\* An instant read from the clock during the call that has just returned.
DuringCall(text) ==
    \E t \in Times : /\ returned.call.began <= t /\ t <= now
                     /\ text = ToISOString(t)

\* The last record getArtifacts returns carries collectedAt from the call and
\* every field of the request r other than timestamp unchanged.
LastIsEnriched(last, r) ==
    /\ DOMAIN last = DOMAIN r \cup {"timestamp", "collectedAt"}
    /\ DuringCall(last.collectedAt)
    /\ \A k \in DOMAIN r \ {"timestamp", "collectedAt"} : last[k] = r[k]

Readable(f) == GetArtifacts(f, "").ok
Records(f) == GetArtifacts(f, "").value

IsPrefix(a, b) == Len(a) <= Len(b) /\ SubSeq(b, 1, Len(a)) = a

\* C7: but for clearArtifacts, no step removes, reorders or changes a record:
\* what getArtifacts returns before a step is a prefix of what it returns
\* after it.
C7_AppendOnly ==
    [][ /\ Readable(file')
        /\ returned'.op # "clearArtifacts" => IsPrefix(Records(file), Records(file'))
      ]_vars

\* A second record has just been appended behind the first.
C7_Witness ==
    /\ JustCollected
    /\ Len(Records(file)) = 2

\* Every line of the file is the whole text of one record.
EachLineParses(f) ==
    LET lines == NonEmptyLines(Split(Trim(f), <<>>))
    IN  \A i \in 1..Len(lines) : Parses(lines[i])

ValidRecords(f) ==
    IF f = NoFile THEN <<>>
    ELSE LET lines == SelectSeq(NonEmptyLines(Split(Trim(f), <<>>)), Parses)
         IN  [i \in 1..Len(lines) |-> JSONParse(lines[i])]

\* C10: with a malformed record in the file (a line cut short by a crash),
\* getArtifacts still returns every valid record and getArtifactsByJobName
\* still finds the valid records, instead of failing.
C10_MalformedRecordDoesNotPoisonReads ==
    /\ (returned.op = "getArtifacts" /\ returned.fsError = "") =>
          returned.result = Ok(ValidRecords(file))
    /\ (returned.op = "getArtifactsByJobName" /\ returned.fsError = "") =>
          returned.result = Ok(Find(ValidRecords(file), returned.jobName))

\* The identities createJob has generated and handed on: those of the jobs
\* submitted, of the call in flight and of the answer just given.
IssuedNames ==
    {submitted[i].metadata.name : i \in 1..Len(submitted)}
    \cup (IF creating # Nothing THEN {creating.jobName} ELSE {})
    \cup (IF response # Nothing /\ response.status = 201
            THEN {response.body.jobName} ELSE {})

\* C11: whatever the phase and the name of the request, the identity that
\* generateJobName returns is at most 63 characters long.
C11_IdentityWithinLimit ==
    \A jobName \in IssuedNames : Len(jobName) <= NameLimit

\* A name as long as the limit by itself has been cut down to the limit.
C11_Witness ==
    /\ creating # Nothing
    /\ Len(creating.request.name) >= NameLimit
    /\ Len(creating.jobName) = NameLimit
    /\ creating.jobName \in {submitted[i].metadata.name : i \in 1..Len(submitted)}

\* C12: whatever the phase and the name of the request (upper case, spaces,
\* punctuation, names long enough to be truncated), the identity is a valid
\* resource name: only lower-case letters, digits and '-', beginning and
\* ending with an alphanumeric character.
C12_IdentityIsResourceName ==
    \A jobName \in IssuedNames :
        /\ jobName # <<>>
        /\ \A i \in 1..Len(jobName) : jobName[i] \in AlphaNumeric \cup {"-"}
        /\ jobName[1] \in AlphaNumeric
        /\ jobName[Len(jobName)] \in AlphaNumeric

\* The name with every character lower-cased and every character outside
\* [a-z0-9] replaced by a dash, character by character.
Sanitized(name) ==
    [i \in 1..Len(name) |->
        IF name[i] \in AlphaNumeric THEN name[i]
        ELSE IF name[i] \in Range(UpperCase)
          THEN LowerCase[CHOOSE k \in 1..Len(UpperCase) : UpperCase[k] = name[i]]
          ELSE "-"]

\* The number that a text of base-36 digits denotes.
RECURSIVE Value36(_)
Value36(str) ==
    IF str = <<>> THEN 0
    ELSE Value36(SubSeq(str, 1, Len(str) - 1)) * Radix
           + (CHOOSE d \in 0..(Radix - 1) : (Digits \o LowerCase)[d + 1] = str[Len(str)])

\* The first n characters of str, all of it when it is shorter.
FirstChars(str, n) == [i \in 1..(IF Len(str) < n THEN Len(str) ELSE n) |-> str[i]]

\* C13: for the call createJob(phase, name) made at instant t, the identity
\* is exactly the first 63 characters of
\* 'x2a-' + phase + '-' + sanitized(name) + '-' + base36(t), where base36(t)
\* is the canonical base-36 text of the milliseconds at t; it is a function
\* of (phase, name, t) alone.
C13_IdentityIsTruncatedConcatenation ==
    creating # Nothing =>
        LET base36 == ToString36(DateNow(creating.at))
        IN  /\ Value36(base36) = DateNow(creating.at)
            /\ (Len(base36) > 1 => base36[1] # "0")
            /\ creating.jobName =
                 FirstChars(<<"x", "2", "a", "-">> \o creating.request.phase \o <<"-">>
                              \o Sanitized(creating.request.name) \o <<"-">> \o base36,
                            NameLimit)

\* An identity made from a name with upper case, a space and punctuation,
\* short enough to carry its whole timestamp.
C13_Witness ==
    /\ creating # Nothing
    /\ creating.request.name = NameMixed
    /\ creating.jobName =
         <<"x", "2", "a", "-", "i", "n", "i", "t", "-",
           "m", "y", "-", "a", "p", "p", "-", "-">> \o ToString36(DateNow(creating.at))

\* The three required fields are in the request and none is empty.
AllPresent(request) ==
    \A key \in {"phase", "name", "description"} :
        key \in DOMAIN request /\ request[key] # <<>>

\* The answer res is to a request that reached createJob with a phase
\* outside init, analyze, migrate and publish.
UnsupportedPhase(res) ==
    /\ res # Nothing
    /\ AllPresent(res.request)
    /\ res.request.phase \notin MigrationPhases

\* C14: a createJob call whose phase is outside {init, analyze, migrate,
\* publish} fails with the unknown-phase error, and nothing is submitted on
\* its account: no job that is submitted or awaited has such a phase.
C14_UnknownPhaseFailsBeforeSubmit ==
    [][/\ UnsupportedPhase(response') =>
            /\ response'.createJob = Threw("Unknown phase")
            /\ submitted' = submitted
            /\ creating' = Nothing
       /\ \A i \in 1..Len(submitted') :
            submitted'[i].metadata.labels.phase \in MigrationPhases
       /\ creating' # Nothing => creating'.request.phase \in MigrationPhases]_vars

\* A call with the phase 'deploy' has failed, after a job was submitted for
\* another request.
C14_Witness ==
    /\ UnsupportedPhase(response)
    /\ response.request.phase = PhaseDeploy
    /\ ~response.createJob.ok
    /\ Len(submitted) = 1

\* C15: a request in which phase, name or description is missing or empty
\* is answered with the validation error and createJob is not invoked for
\* it; a request with all three present passes validation whatever its
\* other fields are, and createJob is invoked.
C15_RequiredFieldsValidated ==
    /\ response # Nothing =>
          IF AllPresent(response.request)
            THEN response.createJob # Nothing /\ response.status # 400
            ELSE /\ response.createJob = Nothing
                 /\ response.status = 400
                 /\ "error" \in DOMAIN response.body
    /\ creating # Nothing => AllPresent(creating.request)
    /\ \A i \in 1..Len(submitted) :
          /\ submitted[i].metadata.labels.phase # <<>>
          /\ submitted[i].metadata.annotations.description # <<>>

\* A request without a description has been refused although its phase
\* is not supported either.
C15_Witness ==
    /\ response # Nothing
    /\ response.status = 400
    /\ response.request = [phase |-> PhaseDeploy, name |-> NameDemo]
    /\ response.createJob = Nothing

\* C16: POST /jobs answers with a 4xx status when the request fails
\* validation or names an unsupported phase, and with a 5xx status when the
\* cluster rejects the job.
C16_StatusClasses ==
    response # Nothing =>
        /\ (~AllPresent(response.request) \/ UnsupportedPhase(response))
              => response.status \in 400..499
        /\ (response.createJob # Nothing /\ ~response.createJob.ok
              /\ response.createJob.error \in Outcomes)
              => response.status \in 500..599

\* C17: createJob returns the identity exactly when the cluster accepted the
\* job; when the cluster rejects it, createJob fails with the error of the
\* cluster, returns no identity and submits nothing again.
C17_IdentityIffAccepted ==
    [][(creating # Nothing /\ creating' = Nothing) =>
          LET result == response'.createJob
          IN  /\ result.ok <=> jobs' = Append(jobs, creating.job)
              /\ result.ok => result.value = creating.jobName
              /\ ~result.ok =>
                    /\ result.error \in CreateNamespacedJob(creating.job, jobs) \ {"Created"}
                    /\ "value" \notin DOMAIN result
                    /\ "jobName" \notin DOMAIN response'.body
                    /\ jobs' = jobs
              /\ submitted' = submitted]_vars

\* The cluster has refused the one job that was submitted.
C17_Witness ==
    /\ response # Nothing
    /\ response.createJob = Threw("Forbidden")
    /\ Len(submitted) = 1
    /\ jobs = <<>>

C19_EmptyLedgerReadsEmpty ==
    [][/\ (file' = NoFile /\ returned'.op = "getArtifacts"
             /\ returned'.fsError = "") => returned'.result = Ok(<<>>)
       /\ (file' = NoFile /\ returned'.op = "getArtifactsByJobName"
             /\ returned'.fsError = "")
            => returned'.result.ok /\ returned'.result.value = <<>>
       /\ (returned'.op = "clearArtifacts" /\ returned'.result.ok)
            => /\ GetArtifacts(file', "") = Ok(<<>>)
               /\ \A jobName \in LookupNames :
                    GetArtifactsByJobName(file', "", jobName) = Ok(<<>>)]_vars

\* A lookup by name on a ledger that does not exist has returned nothing,
\* while a call is still waiting to append.
C19_Witness ==
    /\ file = NoFile
    /\ returned.op = "getArtifactsByJobName"
    /\ returned.result = Ok(<<>>)
    /\ Len(pending) > 0

\* C20: clearArtifacts on a ledger that does not exist completes without
\* error unless the file system raises a fault of its own, and changes
\* nothing; after any clear that completes the ledger reads as empty, and
\* it reads as empty until a collectArtifacts call appends to it.
C20_ClearIsIdempotent ==
    [][/\ (returned'.op = "clearArtifacts" /\ file = NoFile) =>
            /\ file' = file
            /\ ~returned'.result.ok => returned'.result.error \in FsErrors \ {""}
       /\ (returned'.op = "clearArtifacts" /\ returned'.result.ok) =>
            /\ file' = NoFile
            /\ Records(file') = <<>>
       /\ (Records(file) = <<>> /\ Records(file') # <<>>) =>
            returned'.op = "collectArtifacts" /\ returned'.result.ok]_vars

\* A clear has completed on a ledger that did not exist.
C20_Witness ==
    /\ returned.op = "clearArtifacts"
    /\ ~returned.existed
    /\ returned.result.ok
    /\ file = NoFile

\* buildCommand has just returned a command.
Built == built # Nothing /\ built.result.ok

\* The commands /bin/sh reads in the command that was built.
BuiltCommands == ShellCommands(built.result.value.actualCommand)

\* The commands the template of the phase has by itself: the git setup and
\* the tool for publish in the version with the callback, the tool alone
\* otherwise.
TemplateCommands ==
    IF built.request.phase = PhasePublish /\ config.version = "callback"
      THEN 2 ELSE 1

\* C21: no value of the request that buildCommand places in the command
\* adds a shell command to it or ends the script: the shell reads in the
\* command the commands of the template and no other, and none is exit.
C21_ValuesCannotAddCommands ==
    Built =>
        /\ Len(BuiltCommands) = TemplateCommands
        /\ \A i \in 1..Len(BuiltCommands) :
              BuiltCommands[i][1] # <<"e", "x", "i", "t">>

\* The words of the tool's invocation in the deployed version.
ToolWords == ShellCommands(IF config.version = "callback" THEN Tool ELSE ToolMinimal)[1]

\* The arguments the documentation gives the tool for a request of phase
\* init, analyze or migrate, one word each.
DocumentedArguments(req) ==
    CASE req.phase = PhaseInit ->
           << <<"init">>, <<"--source-dir">>, Dir, req.description >>
      [] req.phase = PhaseAnalyze ->
           << <<"analyze">>, req.description, <<"--source-dir">>, Dir >>
      [] req.phase = PhaseMigrate ->
           << <<"migrate">>, <<"--source-dir">>, Dir,
              <<"--source-technology">>,
              IF Has(req, "sourceTechnology") THEN req.sourceTechnology
              ELSE <<"Chef">>,
              <<"--high-level-migration-plan">>, <<"migration-plan.md">>,
              <<"--module-migration-plan">>,
              <<"migration-plan-">> \o req.moduleName \o <<".md">>,
              <<"Convert", Sp>> \o req.moduleName >>

\* C22: for the phases init, analyze and migrate (with a module name) the
\* command buildCommand produces is one invocation of the tool whose
\* arguments are the documented ones in the documented order: the
\* description is one free-text argument, --source-technology carries the
\* request's sourceTechnology or Chef, the plan files and 'Convert
\* {moduleName}' follow.
C22_DocumentedCommand ==
    (/\ Built
     /\ built.request.phase \in {PhaseInit, PhaseAnalyze, PhaseMigrate}
     /\ built.request.phase = PhaseMigrate => Has(built.request, "moduleName"))
    => BuiltCommands = << ToolWords \o DocumentedArguments(built.request) >>


\* The publish invocation: the last command of the built text.
PublishArguments == BuiltCommands[Len(BuiltCommands)]

\* The arguments that follow the occurrences of flag in argv, in order.
ValuesOf(argv, flag) ==
    LET at == SelectSeq([i \in 1..(Len(argv) - 1) |-> i],
                        LAMBDA i : argv[i] = <<flag>>)
    IN  [k \in 1..Len(at) |-> argv[at[k] + 1]]

FlagGiven(argv, flag) == \E i \in 1..Len(argv) : argv[i] = <<flag>>

\* The branch the deployed version falls back to.
PlaceholderBranch ==
    IF config.version = "callback" THEN <<"test_test_1">> ELSE <<"main">>

\* C23: for phase publish the command carries one --source-paths argument
\* per supplied source path, or the single default path
\* /app/source/ansible/roles/{moduleName} when none is supplied;
\* --github-branch carries the request's githubBranch or the placeholder
\* branch; and --skip-git, --base-path, --collections-file and
\* --inventory-file are there exactly when the request has the field.
C23_PublishArguments ==
    (Built /\ built.request.phase = PhasePublish) =>
        LET req == built.request
            argv == PublishArguments
        IN  /\ ValuesOf(argv, "--source-paths")
                 = IF Has(req, "sourcePaths") THEN req.sourcePaths
                   ELSE << Dir \o <<"/ansible/roles/">> \o req.moduleName >>
            /\ ValuesOf(argv, "--github-branch")
                 = << IF Has(req, "githubBranch") THEN req.githubBranch
                      ELSE PlaceholderBranch >>
            /\ FlagGiven(argv, "--skip-git")
                 <=> ("skipGit" \in DOMAIN req /\ req.skipGit)
            /\ ValuesOf(argv, "--base-path")
                 = IF Has(req, "basePath") THEN <<req.basePath>> ELSE <<>>
            /\ ValuesOf(argv, "--collections-file")
                 = IF Has(req, "collectionsFile") THEN <<req.collectionsFile>>
                   ELSE <<>>
            /\ ValuesOf(argv, "--inventory-file")
                 = IF Has(req, "inventoryFile") THEN <<req.inventoryFile>>
                   ELSE <<>>


\* C25: every job createJob submits runs /bin/sh -c with one argument, the
\* built command wrapped by the callback script; none is submitted with the
\* command as buildCommand's case produced it.
C25_SubmittedCommandIsWrapped ==
    \A i \in 1..Len(submitted) :
        /\ submitted[i].spec.command = <<"/bin/sh", "-c">>
        /\ Len(submitted[i].spec.args) = 1
        /\ submitted[i].spec.args[1].wrapped

\* C30: under every configuration of x2a.namespace, the namespace in the
\* answer 201 of POST /jobs is the namespace of the job that createJob
\* submitted under the returned identity.
C30_ResponseNamespaceIsJobNamespace ==
    (response # Nothing /\ response.status = 201) =>
        \A i \in 1..Len(submitted) :
            submitted[i].metadata.name = response.body.jobName
            => submitted[i].metadata.namespace = response.body.namespace


\* The lookup by the job name of the report just collected, made at once.
LookupOfCollected ==
    GetArtifactsByJobName(file, "", returned.call.request.jobName)

\* C27 as stated: after collectArtifacts(r) succeeds, the lookup by
\* r.jobName returns the record just appended for r, whatever the ledger
\* held before.
C27_LookupReturnsAppended ==
    JustCollected => LookupOfCollected = Ok(<<returned.call.enriched>>)

\* C27, amended: after collectArtifacts(r) succeeds, the lookup by r.jobName
\* returns the record just appended when no record with that jobName was in
\* the ledger before, and the earliest record with that jobName otherwise.
C27_LookupAfterCollect ==
    JustCollected =>
        LET records == Records(file)
            same == {i \in 1..Len(records) :
                       records[i].jobName = returned.call.request.jobName}
        IN  /\ Readable(file)
            /\ records[Len(records)] = returned.call.enriched
            /\ Len(records) \in same
            /\ \E i \in same : /\ \A j \in same : i <= j
                               /\ LookupOfCollected = Ok(<<records[i]>>)
            /\ same = {Len(records)}
                 => LookupOfCollected = Ok(<<returned.call.enriched>>)

\* A report has just been collected into a ledger that held a report of
\* another job, and the lookup returns the record just appended.
C27_Witness ==
    /\ JustCollected
    /\ Len(Records(file)) = 2
    /\ Records(file)[1].jobName # returned.call.request.jobName
    /\ LookupOfCollected = Ok(<<returned.call.enriched>>)


\* The characters of the job names the reports carry.
Spell(jobName) ==
    CASE jobName = "x2a-init-demo-a" ->
           <<"x", "2", "a", "-", "i", "n", "i", "t", "-", "d", "e", "m", "o",
             "-", "a">>
      [] jobName = "x2a-migrate-web-b" ->
           <<"x", "2", "a", "-", "m", "i", "g", "r", "a", "t", "e", "-",
             "w", "e", "b", "-", "b">>

\* C28: every report recorded in the ledger names a job that createJob has
\* issued and the cluster holds; a report that names a job never issued is
\* not recorded.
C28_RecordedReportsNameIssuedJobs ==
    \A i \in 1..Len(delivered) :
        \E j \in 1..Len(jobs) :
            jobs[j].metadata.name = Spell(delivered[i].request.jobName)


\* C26: whatever the phase and the name, the identity createJob has
\* generated differs from every identity generateJobName gives the same
\* phase and name at another tick of the clock.
C26_DifferentTicksDifferentIdentities ==
    creating # Nothing =>
        \A t \in Times \ {creating.at} :
            GenerateJobName(creating.request.phase, creating.request.name,
                            DateNow(t)) # creating.jobName


\* The callbacks pod p has posted so far.
PostsOf(p) ==
    IF pods[p].phase = "Running" THEN runs[pods[p].run].posts ELSE pods[p].posts

\* C24: every job is single-attempt: the cluster makes at most one pod for
\* it, so its command runs at most once and at most one pod posts its
\* completion callback, also after the command has failed.
C24_SingleAttempt ==
    \A j \in 1..Len(jobs) :
        /\ Cardinality(PodsOf(j)) <= 1
        /\ Cardinality({p \in PodsOf(j) : PostsOf(p) # <<>>}) <= 1


\* The job carries identity jobName and the phase of request in its
\* metadata and in the env of its container.
CarriesIdentity(job, jobName, request) ==
    /\ job.metadata.name = jobName
    /\ job.spec.env.JOB_NAME = jobName
    /\ job.spec.env.MIGRATION_PHASE = request.phase
    /\ job.metadata.labels.phase = request.phase

\* C29: in every job createJob submits, metadata.name, JOB_NAME and the
\* identity returned to the caller are the same string, and MIGRATION_PHASE
\* and the phase label are the phase of the request; the payload a pod of
\* the job builds and posts carries that jobName and that phase.
C29_JobCarriesItsIdentity ==
    /\ \A i \in 1..Len(submitted) :
          /\ submitted[i].spec.env.JOB_NAME = submitted[i].metadata.name
          /\ submitted[i].spec.env.MIGRATION_PHASE
               = submitted[i].metadata.labels.phase
    /\ creating # Nothing
         => /\ CarriesIdentity(creating.job, creating.jobName, creating.request)
            /\ submitted[Len(submitted)] = creating.job
    /\ (response # Nothing /\ response.status = 201)
         => \E j \in 1..Len(jobs) :
               CarriesIdentity(jobs[j], response.body.jobName, response.request)
    /\ \A p \in 1..Len(pods) :
          LET job == jobs[pods[p].job]
              named(payload) ==
                  /\ payload.jobName = job.metadata.name
                  /\ payload.phase = job.metadata.labels.phase
          IN  /\ \A k \in 1..Len(PostsOf(p)) : named(PostsOf(p)[k].body)
              /\ (pods[p].phase = "Running"
                    /\ runs[pods[p].run].CALLBACK_PAYLOAD # <<>>)
                   => named(runs[pods[p].run].CALLBACK_PAYLOAD[1])

\* createJob has returned an identity to the caller and a pod of that job
\* has posted its callback.
C29_Witness ==
    /\ response # Nothing
    /\ response.status = 201
    /\ \E p \in 1..Len(pods) :
          /\ pods[p].phase # "Running"
          /\ pods[p].posts # <<>>
          /\ pods[p].posts[1].body.jobName = response.body.jobName
          /\ pods[p].posts[1].body.phase = response.request.phase


====
